---- MODULE Spec2Model ----
(***************************************************************************)
(* A model of the docker-optimizer file-usage analysis:                    *)
(*   - DockerAnalyzer.get_unused_files            (src/optimizer.py)       *)
(*   - FilesystemAnalyzer.get_all_files_with_size, get_lsof_files,         *)
(*     get_proc_files, is_system_path, get_all_used_files                  *)
(*                                           (src/filesystem_analyzer.py)  *)
(*   - FileAccessTracker and run_trace_command / parse_trace_output        *)
(*                         (src/file_access_tracker.py, src/optimizer.py)  *)
(* Strings are sequences of one-character strings, so that split,          *)
(* startswith, slicing and sorted() are computed as Python computes them.  *)
(***************************************************************************)
EXTENDS Integers, Sequences, FiniteSets, TLC

VARIABLES
    container,       \* what the container answers to each exec_run
    runs,            \* the outcomes of the get_unused_files calls so far
    fws,             \* the outcome of get_all_files_with_size
    aused,           \* the outcome of get_all_used_files
    dyn,             \* the outcome of _exercise_dynamic_loading
    os_type,         \* platform.system()
    disk,            \* the trace artifacts in the working directory
    dtrace_process,  \* FileAccessTracker.dtrace_process
    strace_process,  \* FileAccessTracker.strace_process ("unset": no attribute)
    tracer,          \* the tracer subprocess started by the FileAccessTracker
    start_result,    \* what start_tracking returned
    accessed,        \* what get_accessed_files returned
    cleaned,         \* cleanup() has run since the session started
    rt,              \* run_trace_command: position, its subprocess, its result
    rt_parsed,       \* what parse_trace_output returned
    daemon,          \* the containers of the Docker daemon, by id
    active_container,\* ContainerManager.active_container
    docker_calls,    \* the stop() and remove() calls the daemon received
    mgr_log,         \* the ContainerManager methods called so far
    an,              \* main(): its position and the results of analyze_image
    analysis,        \* the suggestions under analysis['optimization_suggestions']
    shown            \* what display_analysis_results presented of them

vars == <<container, runs, fws, aused, dyn, os_type, disk, dtrace_process,
          strace_process, tracer, start_result, accessed, cleaned, rt, rt_parsed,
          daemon, active_container, docker_calls, mgr_log, an, analysis, shown>>

appVars == <<daemon, active_container, docker_calls, mgr_log, an, analysis, shown>>

advVars == <<analysis, shown>>

traceVars == <<os_type, disk, dtrace_process, strace_process, tracer, start_result,
               accessed, cleaned, rt, rt_parsed>>

(***************************************************************************)
(* Bounds of the model.                                                    *)
(***************************************************************************)
\* how many times get_unused_files is run against the same container
MaxRuns == 2
\* how many lines a tracer writes to its output file
MaxTraceLines == 2
\* how many ContainerManager methods are called on one manager
MaxManagerCalls == 3

(***************************************************************************)
(* Python str / list / set primitives.                                     *)
(***************************************************************************)
NL == "\n"
SP == " "
QUOTE == "\""

\* The characters of the model in code-point order (str comparison in sorted()).
Alphabet == <<NL, SP, QUOTE, "(", ")", ",", "-", ".", "/",
              "0", "1", "2", "3", "4", "5", "6", "7", "8", "9", ":", "=", ">",
              "[", "]", "a", "b", "c", "d", "e", "f", "g", "h", "i", "j", "k", "l", "m",
              "n", "o", "p", "q", "r", "s", "t", "u", "v", "w", "x", "y", "z">>

Ord(c) == CHOOSE i \in 1..Len(Alphabet) : Alphabet[i] = c

\* s.startswith(p)
StartsWith(s, p) == /\ Len(s) >= Len(p)
                    /\ \A i \in 1..Len(p) : s[i] = p[i]

\* s.endswith(p)
EndsWith(s, p) == /\ Len(s) >= Len(p)
                  /\ \A i \in 1..Len(p) : s[Len(s) - Len(p) + i] = p[i]

\* s < t for Python strings: lexicographic by code point
RECURSIVE StrLess(_, _)
StrLess(s, t) ==
    IF t = <<>> THEN FALSE
    ELSE IF s = <<>> THEN TRUE
    ELSE IF Head(s) = Head(t) THEN StrLess(Tail(s), Tail(t))
    ELSE Ord(Head(s)) < Ord(Head(t))

\* sub occurs in s at position i
OccursAt(s, sub, i) == /\ i + Len(sub) - 1 <= Len(s)
                       /\ \A j \in 1..Len(sub) : s[i + j - 1] = sub[j]

\* sub in s
Contains(s, sub) == \E i \in 1..(Len(s) + 1) : OccursAt(s, sub, i)

\* s.split(sep) for a non-empty separator, scanning from position i with the
\* current field starting at `start`: always at least one field, empty fields
\* kept (a trailing separator gives a trailing '')
RECURSIVE SplitFrom(_, _, _, _)
SplitFrom(s, sep, start, i) ==
    IF i + Len(sep) - 1 > Len(s) THEN <<SubSeq(s, start, Len(s))>>
    ELSE IF OccursAt(s, sep, i)
        THEN <<SubSeq(s, start, i - 1)>> \o SplitFrom(s, sep, i + Len(sep), i + Len(sep))
    ELSE SplitFrom(s, sep, start, i + 1)
SplitStr(s, sep) == SplitFrom(s, sep, 1, 1)

\* output.decode('utf-8').split('\n')
SplitLines(out) == SplitStr(out, <<NL>>)

\* s.split(): fields separated by runs of whitespace, empty fields dropped
SplitWs(s) == SelectSeq(SplitStr(s, <<SP>>), LAMBDA f : f # <<>>)

\* s.strip() for the whitespace of the model (spaces)
RECURSIVE LStrip(_)
LStrip(s) == IF s # <<>> /\ Head(s) = SP THEN LStrip(Tail(s)) ELSE s
RECURSIVE RStrip(_)
RStrip(s) == IF s # <<>> /\ s[Len(s)] = SP THEN RStrip(SubSeq(s, 1, Len(s) - 1)) ELSE s
Strip(s) == LStrip(RStrip(s))

\* s.strip('"')
RECURSIVE LStripQ(_)
LStripQ(s) == IF s # <<>> /\ Head(s) = QUOTE THEN LStripQ(Tail(s)) ELSE s
RECURSIVE RStripQ(_)
RStripQ(s) == IF s # <<>> /\ s[Len(s)] = QUOTE THEN RStripQ(SubSeq(s, 1, Len(s) - 1)) ELSE s
StripQuotes(s) == LStripQ(RStripQ(s))

\* s.split(maxsplit=1) on an already stripped string: at most two fields
SplitWsMax1(s) ==
    IF s = <<>> THEN <<>>
    ELSE IF \A i \in 1..Len(s) : s[i] # SP THEN <<s>>
    ELSE LET k == CHOOSE i \in 1..Len(s) :
                     s[i] = SP /\ \A j \in 1..(i - 1) : s[j] # SP
         IN  <<SubSeq(s, 1, k - 1), LStrip(SubSeq(s, k + 1, Len(s)))>>

Digits == <<"0", "1", "2", "3", "4", "5", "6", "7", "8", "9">>
IsDigit(c) == \E i \in 1..Len(Digits) : Digits[i] = c
DigitVal(c) == (CHOOSE i \in 1..Len(Digits) : Digits[i] = c) - 1

\* int(s) succeeds (no ValueError) on a non-empty string of digits
IsInt(s) == s # <<>> /\ \A i \in 1..Len(s) : IsDigit(s[i])
RECURSIVE IntOf(_)
IntOf(s) == IF s = <<>> THEN 0
            ELSE 10 * IntOf(SubSeq(s, 1, Len(s) - 1)) + DigitVal(s[Len(s)])

\* set(xs) of a list
SetOf(xs) == {xs[i] : i \in 1..Len(xs)}

\* every order in which iterating a set can yield its elements
Orders(S) == {f \in [1..Cardinality(S) -> S] : \A i, j \in 1..Cardinality(S) :
                                                   f[i] = f[j] => i = j}

\* every order of a list
Reorderings(xs) == {[i \in 1..Len(xs) |-> xs[f[i]]] : f \in Orders(1..Len(xs))}

\* sorted(xs) for a list of strings (insertion into the sorted prefix)
RECURSIVE Insert(_, _)
Insert(x, xs) == IF xs = <<>> THEN <<x>>
                 ELSE IF StrLess(Head(xs), x) THEN <<Head(xs)>> \o Insert(x, Tail(xs))
                 ELSE <<x>> \o xs
RECURSIVE Sorted(_)
Sorted(xs) == IF xs = <<>> THEN <<>> ELSE Insert(Head(xs), Sorted(Tail(xs)))

\* sum(size for _, size in files)
RECURSIVE SumSizes(_)
SumSizes(files) == IF files = <<>> THEN 0 ELSE Head(files)[2] + SumSizes(Tail(files))

(***************************************************************************)
(* The container: what each exec_run answers.  A call either raises        *)
(* (docker.errors.APIError) or returns an exit code and the output bytes.  *)
(***************************************************************************)
Raise == [raises |-> TRUE, exit_code |-> 0, output |-> <<>>]
Exit(code, out) == [raises |-> FALSE, exit_code |-> code, output |-> out]
Ok(out) == Exit(0, out)
\* the command is missing or fails: non-zero exit, a message on the output
Failed == Exit(1, <<"e", "r", "r">>)

Line(s) == s \o <<NL>>

pA == <<"/", "a">>
pB == <<"/", "b">>
pProcX == <<"/", "p", "r", "o", "c", "/", "x">>
pDeveloper == <<"/", "d", "e", "v", "e", "l", "o", "p", "e", "r">>
pDevNull == <<"/", "d", "e", "v", "/", "n", "u", "l", "l">>
pUsrLibC == <<"/", "u", "s", "r", "/", "l", "i", "b", "/", "c">>
pTmpT == <<"/", "t", "m", "p", "/", "t">>
HEAP == <<"[", "h", "e", "a", "p", "]">>

\* outputs of 'find / -type f'
findNone == <<>>
findA == Line(pA) \o Line(pB) \o Line(pProcX)
findDev == Line(pDeveloper) \o Line(pUsrLibC) \o Line(pA)
findDup == Line(pB) \o Line(pA) \o Line(pB)
FindResults == {Raise, Failed, Ok(findNone), Ok(findA), Ok(findDev), Ok(findDup)}

\* outputs of 'lsof -F n': a p<pid> line per process, an n<name> line per file
lsofA == Line(<<"p", "1">>) \o Line(<<"n">> \o pA)
lsofDev == Line(<<"p", "1">>) \o Line(<<"n">> \o pDevNull) \o Line(<<"n">> \o pUsrLibC)
               \o Line(<<"n", "p", "i", "p", "e">>)
LsofResults == {Raise, Failed, Ok(<<>>), Ok(lsofA), Ok(lsofDev)}

\* outputs of 'ps aux': a header line, then one line per process
psHeader == <<"U", "S", "E", "R", SP, "P", "I", "D">>
psTwo == Line(psHeader) \o Line(<<"r", "o", "o", "t", SP, SP, "1", SP, "t", "a", "i", "l">>)
             \o Line(<<"r", "o", "o", "t", SP, "7", SP, "s", "h">>)
psBad == Line(psHeader) \o Line(<<"z", "o", "m", "b", "i", "e">>)
             \o Line(<<"r", "o", "o", "t", SP, "7", SP, "s", "h">>)
PsResults == {Raise, Failed, Ok(psTwo), Ok(psBad)}

\* outputs of 'cat /proc/<pid>/maps': address perms inode [path]
mapsB == Line(<<"a", "0", SP, "r", SP, "5", SP>> \o pB) \o Line(<<"a", "1", SP, "r", SP, "0">>)
mapsHeap == Line(<<"a", "0", SP, "r", SP, "5", SP>> \o pA)
                \o Line(<<"a", "2", SP, "r", SP, "0", SP>> \o HEAP)
mapsBlank == Line(<<"a", "0", SP, "r", SP, "5", SP>> \o pB) \o Line(<<SP>>)
                 \o Line(<<"a", "0", SP, "r", SP, "5", SP>> \o pA)
Pid1 == <<"1">>
Pid7 == <<"7">>
Pids == {Pid1, Pid7}
MapsResults == {m \in [Pids -> {Raise, Failed, Ok(mapsB), Ok(mapsHeap), Ok(mapsBlank)}] :
                   /\ m[Pid1] \in {Raise, Failed, Ok(mapsHeap)}
                   /\ m[Pid7] \in {Ok(mapsB), Ok(mapsBlank)}}

\* outputs of the find ... -exec du command: "<size> <path>" per file
sizedA == Line(<<"1", "0", SP>> \o pA) \o Line(<<"5", SP>> \o pB) \o Line(<<"1", SP>> \o pProcX)
sizedDup == Line(<<"1", "0", SP>> \o pA) \o Line(<<"5", SP>> \o pB) \o Line(<<"7", SP>> \o pA)
sizedBad == Line(<<"x", SP>> \o pA) \o Line(<<"5", SP, QUOTE>> \o pB \o <<QUOTE>>)
                \o Line(<<SP>> \o pA) \o Line(<<"3">>)
sizedTmp == Line(<<"2", SP>> \o pTmpT) \o Line(<<"5", SP>> \o pB)
\* find cannot read one directory: its message, the other files, exit code 1
sizedDenied == Line(<<"f", "i", "n", "d", ":", SP, "/", "r">>) \o sizedA
SizedResults == {Raise, Failed, Ok(<<>>), Ok(sizedA), Ok(sizedDup), Ok(sizedBad), Ok(sizedTmp),
                 Exit(1, sizedDenied)}

\* outputs of 'find /proc/*/fd -type l -ls': "... <link> -> <target>"
ARROW == <<SP, "-", ">", SP>>
fdTmp == Line(<<"l", SP, "0">> \o ARROW \o pDevNull) \o Line(<<"l", SP, "3">> \o ARROW \o pTmpT)
             \o Line(<<"l", SP, "4">> \o ARROW \o <<"p", "i", "p", "e">>) \o Line(<<"l", SP, "5">>)
ProcFdResults == {Raise, Failed, Ok(<<>>), Ok(fdTmp)}

\* outputs of 'strace -f -e trace=open,openat -p 1 2>&1'
OPEN == <<"o", "p", "e", "n", "(">>
libSo == <<"/", "l", "i", "b", "/", "c", ".", "s", "o">>
straceSo == Line(OPEN \o <<QUOTE>> \o libSo \o <<QUOTE, ",", SP, "0", ")">>)
                \o Line(OPEN \o <<QUOTE>> \o pA \o <<QUOTE, ",", SP, "0", ")">>)
straceNoQuote == Line(OPEN \o libSo)
StraceResults == {Raise, Failed, Ok(straceSo), Ok(straceNoQuote)}

\* a container on which every command succeeds with the Scenario-A outputs
BaseContainer ==
    [available |-> TRUE, find |-> Ok(findA), lsof |-> Ok(lsofA), ps |-> Ok(psTwo),
     maps |-> [p \in Pids |-> Ok(mapsB)], which_find |-> Ok(<<>>), sized |-> Ok(sizedA),
     apt_lsof |-> Ok(<<>>), procfd |-> Ok(fdTmp), strace |-> Ok(straceSo),
     ldconfig |-> Ok(<<>>)]

\* the containers of the model: each family varies the answers one operation reads
UsageContainers ==
    {[BaseContainer EXCEPT !.find = f] : f \in FindResults}
    \cup {[BaseContainer EXCEPT !.find = f, !.lsof = l, !.ps = p, !.maps = m] :
             f \in {Ok(findA), Ok(findDev)}, l \in LsofResults, p \in PsResults,
             m \in MapsResults}
UsedContainers ==
    {[BaseContainer EXCEPT !.apt_lsof = a, !.lsof = l, !.procfd = d] :
        a \in {Raise, Ok(<<>>)}, l \in LsofResults, d \in ProcFdResults}
SizedContainers ==
    {[c EXCEPT !.which_find = w, !.sized = s] :
        c \in {u \in UsedContainers : u.lsof \in {Raise, Ok(<<>>), Ok(lsofA)}},
        w \in {Raise, Ok(<<>>)}, s \in SizedResults}
DynContainers ==
    {[BaseContainer EXCEPT !.strace = t, !.ldconfig = g] :
        t \in StraceResults, g \in {Raise, Ok(<<>>)}}
Containers == UsageContainers \cup UsedContainers \cup DynContainers
                 \cup {[BaseContainer EXCEPT !.available = FALSE]}

(***************************************************************************)
(* DockerAnalyzer.get_unused_files (src/optimizer.py).                     *)
(***************************************************************************)
system_paths ==
    {<<"/", "b", "i", "n">>,
     <<"/", "s", "b", "i", "n">>,
     <<"/", "l", "i", "b">>,
     <<"/", "l", "i", "b", "6", "4">>,
     <<"/", "u", "s", "r", "/", "b", "i", "n">>,
     <<"/", "u", "s", "r", "/", "s", "b", "i", "n">>,
     <<"/", "u", "s", "r", "/", "l", "i", "b">>,
     <<"/", "e", "t", "c">>,
     <<"/", "v", "a", "r", "/", "l", "o", "g">>,
     <<"/", "v", "a", "r", "/", "r", "u", "n">>,
     <<"/", "d", "e", "v">>,
     <<"/", "p", "r", "o", "c">>,
     <<"/", "s", "y", "s">>}

\* any(f.startswith(path) for path in system_paths)
IsUnderSystemPaths(f, paths) == \E path \in paths : StartsWith(f, path)

\* line[1:] for every non-empty line, the 'n/' test left out
LsofNamesUnfiltered(out) ==
    {Tail(line) : line \in {l \in SetOf(SplitLines(out)) : l # <<>>}}

\* line[1:] for the lines that start with 'n/'
LsofNames(out) ==
    {Tail(line) : line \in {l \in SetOf(SplitLines(out)) : StartsWith(l, <<"n", "/">>)}}

\* a merge that assigns the later set instead of adding it
UpdateOverwrites(used_files, more) == more

\* used_files.update(more)
Update(used_files, more) == used_files \cup more

\* the used set from the evidence sets, merged in the order given
RECURSIVE MergeEvidence(_)
MergeEvidence(evidence) ==
    IF evidence = <<>> THEN {}
    ELSE Update(MergeEvidence(SubSeq(evidence, 1, Len(evidence) - 1)),
                evidence[Len(evidence)])

\* proc_files.update(line.split()[-1] for line in ... if line and not
\* line.endswith(' 0')): the elements before a failing line stay added
RECURSIVE MapsUpdate(_, _)
MapsUpdate(proc_files, lines) ==
    IF lines = <<>> THEN proc_files
    ELSE LET line == Head(lines)
             fields == SplitWs(line)
         IN  IF line = <<>> \/ EndsWith(line, <<SP, "0">>)
                 THEN MapsUpdate(proc_files, Tail(lines))
             ELSE IF fields = <<>> THEN proc_files          \* IndexError
             ELSE MapsUpdate(proc_files \cup {fields[Len(fields)]}, Tail(lines))

\* container.exec_run(f'cat /proc/{pid}/maps')
ExecMaps(c, pid) == IF pid \in DOMAIN c.maps THEN c.maps[pid] ELSE Failed

\* the loop over the process lines: [raised, files]; an APIError of a maps
\* read leaves the loop, an IndexError skips the process
RECURSIVE ProcLoop(_, _, _)
ProcLoop(c, processes, proc_files) ==
    IF processes = <<>> THEN [raised |-> FALSE, files |-> proc_files]
    ELSE LET proc == Head(processes)
             fields == SplitWs(proc)
         IN  IF proc = <<>> \/ Len(fields) < 2
                 THEN ProcLoop(c, Tail(processes), proc_files)
             ELSE LET maps_cmd == ExecMaps(c, fields[2])
                  IN  IF maps_cmd.raises THEN [raised |-> TRUE, files |-> proc_files]
                      ELSE IF maps_cmd.exit_code = 0
                          THEN ProcLoop(c, Tail(processes),
                                        MapsUpdate(proc_files, SplitLines(maps_cmd.output)))
                      ELSE ProcLoop(c, Tail(processes), proc_files)

\* the files mapped by running processes
ProcMaps(c) ==
    IF c.ps.exit_code = 0
        THEN ProcLoop(c, Tail(SplitLines(c.ps.output)), {})
        ELSE [raised |-> FALSE, files |-> {}]

\* the files in use according to lsof
LsofUsed(c) == IF c.lsof.exit_code = 0 THEN LsofNames(c.lsof.output) ELSE {}

\* the evidence sets in the order get_unused_files merges them
UsageEvidence(c) == <<LsofUsed(c), ProcMaps(c).files>>

\* the comprehension that computes unused_files
UnusedOf(all_files, used_files) ==
    {f \in all_files : f # <<>> /\ ~IsUnderSystemPaths(f, system_paths)
                                /\ f \notin used_files}

\* the list left in the set's iteration order
UnsortedList(order) == order

\* sorted(list(unused_files)), list() yielding the set in the order `order`
SortedList(order) == Sorted(order)

NoDict == [all_files |-> 0, used_files |-> 0, unused_files |-> <<>>, total_unused |-> 0]
ReturnedNone == [returned |-> "None", all_files |-> {}, used_files |-> {},
                 unused_files |-> {}, dict |-> NoDict]

\* get_unused_files returns None: no container, find fails, or a call raises
UsageReturnsNone(c) ==
    \/ ~c.available
    \/ c.find.raises
    \/ c.find.exit_code # 0
    \/ c.lsof.raises
    \/ c.ps.raises
    \/ ProcMaps(c).raised

\* get_unused_files(): the locals at the return statement and the returned
\* dict, one outcome for each order in which list() can yield the unused set
get_unused_files(c) ==
    IF UsageReturnsNone(c) THEN {ReturnedNone}
    ELSE LET all_files == SetOf(SplitLines(c.find.output))
             used_files == MergeEvidence(UsageEvidence(c))
             unused_files == UnusedOf(all_files, used_files)
         IN  {[returned |-> "dict", all_files |-> all_files, used_files |-> used_files,
               unused_files |-> unused_files,
               dict |-> [all_files |-> Cardinality(all_files),
                         used_files |-> Cardinality(used_files),
                         unused_files |-> SortedList(order),
                         total_unused |-> Cardinality(unused_files)]] :
                 order \in Orders(unused_files)}

GetUnusedFiles ==
    /\ Len(runs) < MaxRuns
    /\ \E outcome \in get_unused_files(container) : runs' = Append(runs, outcome)
    /\ UNCHANGED <<appVars, container, fws, aused, dyn, traceVars>>

(***************************************************************************)
(* FilesystemAnalyzer (src/filesystem_analyzer.py).                        *)
(***************************************************************************)
fs_system_paths ==
    {<<"/", "p", "r", "o", "c">>,
     <<"/", "s", "y", "s">>,
     <<"/", "d", "e", "v">>,
     <<"/", "t", "m", "p">>,
     <<"/", "r", "u", "n">>,
     <<"/", "v", "a", "r", "/", "r", "u", "n">>,
     <<"/", "v", "a", "r", "/", "l", "o", "c", "k">>,
     <<"/", "v", "a", "r", "/", "c", "a", "c", "h", "e">>,
     <<"/", "v", "a", "r", "/", "l", "o", "g">>}

common_used ==
    {<<"/", "e", "t", "c", "/", "p", "a", "s", "s", "w", "d">>,
     <<"/", "e", "t", "c", "/", "g", "r", "o", "u", "p">>,
     <<"/", "e", "t", "c", "/", "h", "o", "s", "t", "s">>,
     <<"/", "e", "t", "c", "/", "r", "e", "s", "o", "l", "v", ".", "c", "o", "n", "f">>,
     <<"/", "e", "t", "c", "/", "s", "s", "l", "/", "c", "e", "r", "t", "s">>,
     <<"/", "u", "s", "r", "/", "l", "i", "b">>,
     <<"/", "l", "i", "b">>,
     <<"/", "b", "i", "n">>,
     <<"/", "s", "b", "i", "n">>}

\* is_system_path(path)
is_system_path(path) == \E p \in fs_system_paths : StartsWith(path, p)

\* the loop of get_all_files_with_size over the output lines
RECURSIVE ParseSized(_)
ParseSized(lines) ==
    IF lines = <<>> THEN <<>>
    ELSE LET parts == SplitWsMax1(Strip(Head(lines)))
         IN  IF Head(lines) # <<>> /\ Len(parts) = 2 /\ IsInt(parts[1])
                 THEN <<<<StripQuotes(parts[2]), IntOf(parts[1])>>>> \o ParseSized(Tail(lines))
                 ELSE ParseSized(Tail(lines))      \* empty, one field, or ValueError

\* get_all_files_with_size(): the list of (path, size) it returns
get_all_files_with_size(c) ==
    IF c.which_find.raises \/ c.sized.raises THEN <<>>
    ELSE IF c.sized.exit_code # 0 THEN <<>>
    ELSE ParseSized(SplitLines(c.sized.output))

\* the total it reports: sum(size for _, size in files_with_size)
total_size(files_with_size) == SumSizes(files_with_size)

\* get_lsof_files()
get_lsof_files(c) ==
    IF c.lsof.raises \/ c.lsof.exit_code # 0 THEN {} ELSE LsofNames(c.lsof.output)

\* get_proc_files(): the targets of the fd symlinks that start with '/'
get_proc_files(c) ==
    IF c.procfd.raises \/ c.procfd.exit_code # 0 THEN {}
    ELSE {t \in {Strip(SplitStr(line, ARROW)[2]) :
                    line \in {l \in SetOf(SplitLines(c.procfd.output)) : Contains(l, ARROW)}} :
             StartsWith(t, <<"/">>)}

\* the sets get_all_used_files merges, in its order
FsEvidence(c) == <<get_lsof_files(c), get_proc_files(c), common_used>>

\* get_all_used_files()
get_all_used_files(c) ==
    IF c.apt_lsof.raises THEN {} ELSE MergeEvidence(FsEvidence(c))

GetAllFilesWithSize ==
    /\ ~fws.called
    /\ fws' = [called |-> TRUE, files |-> get_all_files_with_size(container),
               total_size |-> total_size(get_all_files_with_size(container))]
    /\ UNCHANGED <<appVars, container, runs, aused, dyn, traceVars>>

GetAllUsedFiles ==
    /\ ~aused.called
    /\ aused' = [called |-> TRUE, files |-> get_all_used_files(container)]
    /\ UNCHANGED <<appVars, container, runs, fws, dyn, traceVars>>

(***************************************************************************)
(* DynamicAnalyzer._exercise_dynamic_loading (src/dynamic_analyzer.py).    *)
(***************************************************************************)
\* the lines the parse loop reads a path from
SoLines(out) == {l \in SetOf(SplitLines(out)) : Contains(l, OPEN)
                                               /\ Contains(l, <<".", "s", "o">>)}

\* [raised, files]: nothing in the method catches an exception
exercise_dynamic_loading(c) ==
    IF c.strace.raises \/ c.ldconfig.raises THEN [raised |-> TRUE, files |-> {}]
    ELSE IF c.strace.exit_code # 0 THEN [raised |-> FALSE, files |-> {}]
    ELSE IF \E l \in SoLines(c.strace.output) : Len(SplitStr(l, <<QUOTE>>)) < 2
        THEN [raised |-> TRUE, files |-> {}]            \* IndexError
    ELSE [raised |-> FALSE,
          files |-> {SplitStr(l, <<QUOTE>>)[2] : l \in SoLines(c.strace.output)}]

ExerciseDynamicLoading ==
    /\ ~dyn.called
    /\ dyn' = [called |-> TRUE] @@ exercise_dynamic_loading(container)
    /\ UNCHANGED <<appVars, container, runs, fws, aused, traceVars>>

(***************************************************************************)
(* Trace artifacts, the tracers' output and its parsers.                   *)
(***************************************************************************)
FileNames == {"file_trace.d", "dtrace_output.txt", "strace_output.txt",
              "strace_output.log"}
Absent == [exists |-> FALSE, lines |-> <<>>]
NoFiles == [f \in FileNames |-> Absent]

\* os.remove(name) on an existing file
Remove(fl, name) == [fl EXCEPT ![name] = Absent]

dOpenA == <<"o", "p", "e", "n", SP, "/", "a">>
dStatB == <<"s", "t", "a", "t", SP, "/", "b">>
dClose == <<"c", "l", "o", "s", "e", SP, "3">>
sOpenatA == <<"o", "p", "e", "n", "a", "t", "(", "3", ",", SP, QUOTE, "/", "a", QUOTE, ",",
              SP, "0", ")", SP, "=", SP, "3">>
sOpenB == <<"o", "p", "e", "n", "(", QUOTE, "/", "b", QUOTE, ",", SP, "0", ")", SP, "=",
            SP, "3">>
sRead == <<"r", "e", "a", "d", "(", "3", ")", SP, "=", SP, "0">>

\* what a dtrace / strace tracer writes, line by line, while it runs
DtraceOutput == <<dOpenA, dClose, dStatB>>
StraceOutput == <<sOpenatA, sRead, sOpenB>>

K_open == <<"o", "p", "e", "n">>
K_stat == <<"s", "t", "a", "t">>
K_open_paren == <<"o", "p", "e", "n", "(">>
K_openat_paren == <<"o", "p", "e", "n", "a", "t", "(">>
K_comma_quote == <<",", SP, QUOTE>>
K_quote_comma == <<QUOTE, ",">>

\* the tracer appends its next line to its output file, creating the file
AppendLine(fl, name, output) ==
    [fl EXCEPT ![name] = [exists |-> TRUE,
                          lines |-> Append(fl[name].lines, output[Len(fl[name].lines) + 1])]]
CanAppend(fl, name, output) ==
    Len(fl[name].lines) < MaxTraceLines /\ Len(fl[name].lines) < Len(output)

\* FileAccessTracker._parse_dtrace_output: parts[-1] of the open/stat lines
parse_dtrace_output(fl) ==
    IF ~fl["dtrace_output.txt"].exists THEN {}          \* FileNotFoundError
    ELSE {SplitWs(l)[Len(SplitWs(l))] :
             l \in {x \in SetOf(fl["dtrace_output.txt"].lines) :
                       (Contains(x, K_open) \/ Contains(x, K_stat)) /\ Len(SplitWs(x)) >= 2}}

\* FileAccessTracker._parse_strace_output: the first quoted string of the lines
\* with 'open(' or 'openat('
parse_strace_output(fl) ==
    IF ~fl["strace_output.txt"].exists THEN {}          \* FileNotFoundError
    ELSE {SplitStr(l, <<QUOTE>>)[2] :
             l \in {x \in SetOf(fl["strace_output.txt"].lines) :
                       (Contains(x, K_open_paren) \/ Contains(x, K_openat_paren))
                       /\ Contains(x, <<QUOTE>>)}}

\* re.search(r'openat\(.*?, "([^"]+)",', line): the (start, end) of group 1 for
\* the lazy '.*?' ending at j, or none
OpenatGroups(line) ==
    {<<j + 3, q - 1>> : <<j, q>> \in
        {jq \in (1..Len(line)) \X (1..Len(line)) :
            /\ \E i \in 1..jq[1] : OccursAt(line, K_openat_paren, i) /\ i + 7 <= jq[1]
            /\ OccursAt(line, K_comma_quote, jq[1])
            /\ jq[2] >= jq[1] + 4
            /\ OccursAt(line, K_quote_comma, jq[2])
            /\ \A k \in (jq[1] + 3)..(jq[2] - 1) : line[k] # QUOTE}}
OpenatMatch(line) ==
    LET g == CHOOSE x \in OpenatGroups(line) : \A y \in OpenatGroups(line) : x[1] <= y[1]
    IN  SubSeq(line, g[1], g[2])

\* parse_trace_output() of src/optimizer.py
parse_trace_output(os, fl) ==
    LET filename == IF os = "Darwin" THEN "dtrace_output.txt" ELSE "strace_output.log"
    IN  IF ~fl[filename].exists THEN {}                 \* open() raises: except, pass
        ELSE IF os = "Darwin"
            THEN {SplitWs(l)[2] :
                     l \in {x \in SetOf(fl[filename].lines) :
                               (Contains(x, K_open) \/ Contains(x, K_stat))
                               /\ Len(SplitWs(x)) >= 2}}
            ELSE {OpenatMatch(l) :
                     l \in {x \in SetOf(fl[filename].lines) : OpenatGroups(x) # {}}}

(***************************************************************************)
(* FileAccessTracker (src/file_access_tracker.py).                         *)
(***************************************************************************)
\* the output file of the tracer that start_tracking spawns
TrackerOut(os) == IF os = "Darwin" THEN "dtrace_output.txt" ELSE "strace_output.txt"
TracerOutput(os) == IF os = "Darwin" THEN DtraceOutput ELSE StraceOutput

\* where _start_dtrace / _start_strace can raise: the docker inspect call, the
\* write of the script (dtrace only), the spawn of the tracer
StartFailures(os) == IF os = "Darwin" THEN {"none", "inspect", "write", "popen"}
                     ELSE IF os = "Linux" THEN {"none", "inspect", "popen"}
                     ELSE {"none"}

\* start_tracking()
StartTracking ==
    /\ start_result = "NotCalled"
    /\ \E fail \in StartFailures(os_type) :
          /\ disk' = IF os_type = "Darwin" /\ fail \in {"none", "popen"}
                         THEN [disk EXCEPT !["file_trace.d"] =
                                              [exists |-> TRUE, lines |-> <<>>]]
                         ELSE disk
          /\ dtrace_process' = IF os_type = "Darwin" /\ fail = "none"
                                   THEN "Popen" ELSE dtrace_process
          /\ strace_process' = IF os_type = "Linux" /\ fail = "none"
                                   THEN "Popen" ELSE strace_process
          /\ tracer' = IF os_type \in {"Darwin", "Linux"} /\ fail = "none"
                           THEN "running" ELSE tracer
          /\ start_result' = IF os_type \in {"Darwin", "Linux"} /\ fail = "none"
                                 THEN "True" ELSE "False"
    /\ cleaned' = FALSE
    /\ UNCHANGED <<appVars, container, runs, fws, aused, dyn, os_type, accessed, rt, rt_parsed>>

\* the tracer subprocess writes a line of output; a tracer that was sent
\* SIGTERM can still flush output until it has exited
TracerWrite ==
    /\ tracer \in {"running", "terminated"}
    /\ CanAppend(disk, TrackerOut(os_type), TracerOutput(os_type))
    /\ disk' = AppendLine(disk, TrackerOut(os_type), TracerOutput(os_type))
    /\ UNCHANGED <<appVars, container, runs, fws, aused, dyn, os_type, dtrace_process,
                   strace_process, tracer, start_result, accessed, cleaned, rt, rt_parsed>>

\* the tracer subprocess exits (on its own, or after terminate())
TracerExit ==
    /\ tracer \in {"running", "terminated"}
    /\ tracer' = "exited"
    /\ UNCHANGED <<appVars, container, runs, fws, aused, dyn, os_type, disk, dtrace_process,
                   strace_process, start_result, accessed, cleaned, rt, rt_parsed>>

\* get_accessed_files()
get_accessed_files(os, fl) ==
    IF os = "Darwin" THEN parse_dtrace_output(fl)
    ELSE IF os = "Linux" THEN parse_strace_output(fl)
    ELSE {}

GetAccessedFiles ==
    /\ ~accessed.called
    /\ accessed' = [called |-> TRUE, files |-> get_accessed_files(os_type, disk)]
    /\ UNCHANGED <<appVars, container, runs, fws, aused, dyn, os_type, disk, dtrace_process,
                   strace_process, tracer, start_result, cleaned, rt, rt_parsed>>

\* the dtrace branch of cleanup(): the second os.remove is not reached when
\* the first raises OSError
CleanupDtrace(fl) ==
    IF ~fl["file_trace.d"].exists THEN fl
    ELSE LET fl1 == Remove(fl, "file_trace.d")
         IN  IF fl1["dtrace_output.txt"].exists THEN Remove(fl1, "dtrace_output.txt") ELSE fl1

\* the strace branch of cleanup()
CleanupStrace(fl) ==
    IF fl["strace_output.txt"].exists THEN Remove(fl, "strace_output.txt") ELSE fl

\* the files after cleanup()
cleanup(dp, sp, fl) ==
    LET fl1 == IF dp = "Popen" THEN CleanupDtrace(fl) ELSE fl
    IN  IF sp = "Popen" THEN CleanupStrace(fl1) ELSE fl1

Cleanup ==
    /\ start_result # "NotCalled"
    /\ ~cleaned
    /\ disk' = cleanup(dtrace_process, strace_process, disk)
    /\ tracer' = IF (dtrace_process = "Popen" \/ strace_process = "Popen")
                      /\ tracer = "running"
                     THEN "terminated" ELSE tracer
    /\ cleaned' = TRUE
    /\ UNCHANGED <<appVars, container, runs, fws, aused, dyn, os_type, dtrace_process,
                   strace_process, start_result, accessed, rt, rt_parsed>>

(***************************************************************************)
(* run_trace_command / parse_trace_output (src/optimizer.py).              *)
(***************************************************************************)
RtOut(os) == IF os = "Darwin" THEN "dtrace_output.txt" ELSE "strace_output.log"

\* subprocess.Popen / subprocess.run spawns the tracer, or raises (no sudo,
\* no tracer binary): the bare except returns False
RunTraceSpawn ==
    /\ rt.pc = "idle"
    /\ \E spawned \in BOOLEAN :
          rt' = IF spawned THEN [pc |-> "waiting", tracer |-> "running", result |-> "None",
                                 how |-> "none"]
                ELSE [pc |-> "returned", tracer |-> "none", result |-> "False",
                      how |-> "except"]
    /\ UNCHANGED <<appVars, container, runs, fws, aused, dyn, os_type, disk, dtrace_process,
                   strace_process, tracer, start_result, accessed, cleaned, rt_parsed>>

\* the tracer of run_trace_command writes a line of output
RtTracerWrite ==
    /\ rt.tracer \in {"running", "terminated"}
    /\ CanAppend(disk, RtOut(os_type), TracerOutput(os_type))
    /\ disk' = AppendLine(disk, RtOut(os_type), TracerOutput(os_type))
    /\ UNCHANGED <<appVars, container, runs, fws, aused, dyn, os_type, dtrace_process,
                   strace_process, tracer, start_result, accessed, cleaned, rt, rt_parsed>>

\* the tracer exits within the 30 s: communicate() returns (dtrace), run()
\* returns or raises CalledProcessError (strace, check=True)
RunTraceExit ==
    /\ rt.pc = "waiting" /\ rt.tracer = "running"
    /\ \E code \in {0, 1} :
          rt' = [pc |-> "returned", tracer |-> "exited",
                 result |-> IF os_type = "Darwin" \/ code = 0 THEN "True" ELSE "False",
                 how |-> IF os_type = "Darwin" \/ code = 0 THEN "exit"
                         ELSE "CalledProcessError"]
    /\ UNCHANGED <<appVars, container, runs, fws, aused, dyn, os_type, disk, dtrace_process,
                   strace_process, tracer, start_result, accessed, cleaned, rt_parsed>>

\* RunTraceTimeout without the process.terminate() of the dtrace branch
RunTraceTimeoutNoTerminate ==
    /\ rt.pc = "waiting" /\ rt.tracer = "running"
    /\ rt' = [pc |-> "returned",
              tracer |-> IF os_type = "Darwin" THEN "running" ELSE "exited",
              result |-> "True", how |-> "TimeoutExpired"]
    /\ UNCHANGED <<appVars, container, runs, fws, aused, dyn, os_type, disk, dtrace_process,
                   strace_process, tracer, start_result, accessed, cleaned, rt_parsed>>

\* the 30 s elapse: process.terminate() without a wait (dtrace); run() kills
\* the child and waits for it before raising TimeoutExpired (strace)
RunTraceTimeout ==
    /\ rt.pc = "waiting" /\ rt.tracer = "running"
    /\ rt' = [pc |-> "returned",
              tracer |-> IF os_type = "Darwin" THEN "terminated" ELSE "exited",
              result |-> "True", how |-> "TimeoutExpired"]
    /\ UNCHANGED <<appVars, container, runs, fws, aused, dyn, os_type, disk, dtrace_process,
                   strace_process, tracer, start_result, accessed, cleaned, rt_parsed>>

\* KeyboardInterrupt during the wait: except KeyboardInterrupt returns True;
\* run() kills the child first (strace), communicate() does not (dtrace)
RunTraceInterrupt ==
    /\ rt.pc = "waiting" /\ rt.tracer = "running"
    /\ rt' = [pc |-> "returned",
              tracer |-> IF os_type = "Darwin" THEN "running" ELSE "exited",
              result |-> "True", how |-> "KeyboardInterrupt"]
    /\ UNCHANGED <<appVars, container, runs, fws, aused, dyn, os_type, disk, dtrace_process,
                   strace_process, tracer, start_result, accessed, cleaned, rt_parsed>>

\* a tracer left behind by run_trace_command exits
RtTracerExit ==
    /\ rt.pc = "returned" /\ rt.tracer \in {"running", "terminated"}
    /\ rt' = [rt EXCEPT !.tracer = "exited"]
    /\ UNCHANGED <<appVars, container, runs, fws, aused, dyn, os_type, disk, dtrace_process,
                   strace_process, tracer, start_result, accessed, cleaned, rt_parsed>>

ParseTraceOutput ==
    /\ ~rt_parsed.called
    /\ rt_parsed' = [called |-> TRUE, files |-> parse_trace_output(os_type, disk)]
    /\ UNCHANGED <<appVars, container, runs, fws, aused, dyn, os_type, disk, dtrace_process,
                   strace_process, tracer, start_result, accessed, cleaned, rt>>

(***************************************************************************)
(* ContainerManager (src/container_manager.py).                            *)
(***************************************************************************)
\* the container that may run before the analysis, and the ones create() returns
PreExisting == 0
\* Python's None where a container is expected
None == -1
\* analyze_image asks for the container four times
EnsureCallsOfAnalyze == 4
CreatedIds == 1..(IF MaxManagerCalls > EnsureCallsOfAnalyze THEN MaxManagerCalls
                  ELSE EnsureCallsOfAnalyze)
Ids == {PreExisting} \cup CreatedIds

\* the names cleanup() never removes
kept_names == {"eager_ganguly", "boring_gould", "bold_knuth"}
\* the names a container can carry (Docker draws random names from its list)
ContainerNames == {"bold_knuth", "quirky_hopper"}

NoContainer == [status |-> "absent", name |-> "none"]

\* client.containers.list(filters={'ancestor': image_name, 'status': 'running'})
RunningContainers(d) == {id \in Ids : d[id].status = "running"}

\* the id client.containers.create() gives the new container
NewId(d) == CHOOSE id \in CreatedIds :
                d[id].status = "absent" /\ \A j \in CreatedIds : j < id => d[j].status # "absent"

\* ensure_container_exists(image_name): every outcome the daemon allows, as
\* the daemon's containers, active_container and the returned container
ensure_container_exists(d, active) ==
    LET none == [daemon |-> d, active_container |-> active, returned |-> None]
    IN  {none}                                        \* containers.list raises
        \cup
        (IF RunningContainers(d) # {}
            THEN {[daemon |-> d, active_container |-> id, returned |-> id] :
                     id \in RunningContainers(d)}
            ELSE {none}                               \* containers.create raises
                 \cup
                 UNION {LET id == NewId(d)
                            created == [d EXCEPT ![id] = [status |-> "created", name |-> n]]
                            running == [d EXCEPT ![id] = [status |-> "running", name |-> n]]
                            exited  == [d EXCEPT ![id] = [status |-> "exited", name |-> n]]
                        IN  {\* container.start() raises APIError
                             [daemon |-> created, active_container |-> active,
                              returned |-> None],
                             \* container.reload() raises APIError
                             [daemon |-> running, active_container |-> id,
                              returned |-> None],
                             \* container.status != 'running'
                             [daemon |-> exited, active_container |-> id,
                              returned |-> None],
                             [daemon |-> running, active_container |-> id,
                              returned |-> id]} : n \in ContainerNames})

EnsureContainerExists ==
    /\ Len(mgr_log) < MaxManagerCalls
    /\ \E r \in ensure_container_exists(daemon, active_container) :
          /\ daemon' = r.daemon
          /\ active_container' = r.active_container
    /\ mgr_log' = Append(mgr_log, "ensure_container_exists")
    /\ UNCHANGED <<advVars, docker_calls, an, container, runs, fws, aused, dyn, traceVars>>

\* cleanup(): the daemon's containers and the stop / remove calls made, for
\* every outcome of stop() and remove() (an APIError of stop() skips remove())
manager_cleanup(d, active, calls) ==
    IF active = None THEN {[daemon |-> d, docker_calls |-> calls]}
    ELSE IF d[active].name \in kept_names THEN {[daemon |-> d, docker_calls |-> calls]}
    ELSE LET stopped == [d EXCEPT ![active].status = "exited"]
             removed == [d EXCEPT ![active] = NoContainer]
         IN  {[daemon |-> d, docker_calls |-> Append(calls, <<"stop", active>>)],
              [daemon |-> stopped,
               docker_calls |-> calls \o <<<<"stop", active>>, <<"remove", active>>>>],
              [daemon |-> removed,
               docker_calls |-> calls \o <<<<"stop", active>>, <<"remove", active>>>>]}

ManagerCleanup ==
    /\ Len(mgr_log) < MaxManagerCalls
    /\ \E r \in manager_cleanup(daemon, active_container, docker_calls) :
          /\ daemon' = r.daemon
          /\ docker_calls' = r.docker_calls
    /\ active_container' = None
    /\ mgr_log' = Append(mgr_log, "cleanup")
    /\ UNCHANGED <<advVars, an, container, runs, fws, aused, dyn, traceVars>>

ManagerInit ==
    /\ daemon \in {[id \in Ids |-> IF id = PreExisting THEN c ELSE NoContainer] :
                      c \in {NoContainer}
                            \cup [status : {"running", "exited"}, name : ContainerNames]}
    /\ active_container = None
    /\ docker_calls = <<>>
    /\ mgr_log = <<>>

\* no container, no manager call
NoManager ==
    /\ daemon = [id \in Ids |-> NoContainer]
    /\ active_container = None
    /\ docker_calls = <<>>
    /\ mgr_log = <<>>

(***************************************************************************)
(* main() and DockerAnalyzer.analyze_image (src/optimizer.py).             *)
(***************************************************************************)
\* the containers analyze_image is run against
MainContainers ==
    {BaseContainer,
     [BaseContainer EXCEPT !.ps = Failed],
     [BaseContainer EXCEPT !.lsof = Raise],
     [BaseContainer EXCEPT !.find = Ok(findNone)],
     [BaseContainer EXCEPT !.find = Raise]}

\* what container.diff() answers: it raises, or lists the changed paths
DiffRaises == [raises |-> TRUE, paths |-> {}]
DiffResults == {DiffRaises} \cup [raises : {FALSE}, paths : {{}, {pA}, {pA, pB}}]

NoFilesystem == [returned |-> "None", files |-> <<>>, total_files |-> 0]
NoAccess == [files |-> {}, total_accessed |-> 0]

\* get_image_filesystem, after ensure_container_exists returned `returned`
get_image_filesystem(c, returned) ==
    IF returned = None \/ c.find.raises \/ c.find.exit_code # 0 THEN NoFilesystem
    ELSE LET files == SplitLines(c.find.output)
         IN  [returned |-> "dict",
              files |-> SelectSeq(files, LAMBDA f : f # <<>>),
              total_files |-> Len(files)]

\* scan_security, after images.get succeeded and ensure_container_exists
\* returned `returned`: the process lines that start with 'root', or an error
scan_security(c, returned) ==
    IF returned = None THEN [error |-> FALSE, root_processes |-> <<>>]
    ELSE IF c.ps.raises THEN [error |-> TRUE, root_processes |-> <<>>]
    ELSE IF c.ps.exit_code # 0 THEN [error |-> FALSE, root_processes |-> <<>>]
    ELSE [error |-> FALSE,
          root_processes |-> SelectSeq(SplitLines(c.ps.output),
                                       LAMBDA p : StartsWith(p, <<"r", "o", "o", "t">>))]

\* track_file_access(container) for the two answers of container.diff()
track_file_access(initial_diff, final_diff) ==
    IF initial_diff.raises \/ final_diff.raises THEN NoAccess
    ELSE [files |-> final_diff.paths \ initial_diff.paths,
          total_accessed |-> Cardinality(final_diff.paths \ initial_diff.paths)]

\* main() after the image was selected: analyzer = DockerAnalyzer()
MainStart ==
    /\ an.pc = "idle"
    /\ an' = [an EXCEPT !.pc = "layers"]
    /\ UNCHANGED <<advVars, daemon, active_container, docker_calls, mgr_log, container, runs, fws,
                   aused, dyn, traceVars>>

\* step 1: ImageAnalyzer.analyze_layers returns the layer dict or None
AnalyzeLayers ==
    /\ an.pc = "layers"
    /\ \E info \in {"None", "dict"} : an' = [an EXCEPT !.pc = "filesystem", !.layer_info = info]
    /\ UNCHANGED <<advVars, daemon, active_container, docker_calls, mgr_log, container, runs, fws,
                   aused, dyn, traceVars>>

\* step 2: get_image_filesystem(image_name)
GetImageFilesystem ==
    /\ an.pc = "filesystem"
    /\ \E r \in ensure_container_exists(daemon, active_container) :
          /\ daemon' = r.daemon
          /\ active_container' = r.active_container
          /\ an' = [an EXCEPT !.pc = "usage",
                              !.filesystem = get_image_filesystem(container, r.returned)]
    /\ mgr_log' = Append(mgr_log, "ensure_container_exists")
    /\ UNCHANGED <<advVars, docker_calls, container, runs, fws, aused, dyn, traceVars>>

\* step 3: get_unused_files(image_name)
AnalyzeUsage ==
    /\ an.pc = "usage"
    /\ \E r \in ensure_container_exists(daemon, active_container) :
          /\ daemon' = r.daemon
          /\ active_container' = r.active_container
          /\ \E outcome \in get_unused_files([container EXCEPT
                                                 !.available = (r.returned # None)]) :
                an' = [an EXCEPT !.pc = "security", !.unused_files = outcome]
    /\ mgr_log' = Append(mgr_log, "ensure_container_exists")
    /\ UNCHANGED <<advVars, docker_calls, container, runs, fws, aused, dyn, traceVars>>

\* step 4: scan_security(image_name); client.images.get may raise before the
\* container is asked for
ScanSecurity ==
    /\ an.pc = "security"
    /\ \/ /\ an' = [an EXCEPT !.pc = "ensure",
                              !.security = [error |-> TRUE, root_processes |-> <<>>]]
          /\ UNCHANGED <<advVars, daemon, active_container, mgr_log>>
       \/ /\ \E r \in ensure_container_exists(daemon, active_container) :
                /\ daemon' = r.daemon
                /\ active_container' = r.active_container
                /\ an' = [an EXCEPT !.pc = "ensure",
                                    !.security = scan_security(container, r.returned)]
          /\ mgr_log' = Append(mgr_log, "ensure_container_exists")
    /\ UNCHANGED <<advVars, docker_calls, container, runs, fws, aused, dyn, traceVars>>

\* step 5: ensure_container_exists, then track_file_access(container) or {}
TrackFileAccess ==
    /\ an.pc = "ensure"
    /\ \E r \in ensure_container_exists(daemon, active_container) :
          /\ daemon' = r.daemon
          /\ active_container' = r.active_container
          /\ \E initial_diff, final_diff \in DiffResults :
                an' = [an EXCEPT !.pc = "display",
                                 !.tracked = (r.returned # None),
                                 !.file_access =
                                     IF r.returned # None
                                         THEN track_file_access(initial_diff, final_diff)
                                         ELSE NoAccess]
    /\ mgr_log' = Append(mgr_log, "ensure_container_exists")
    /\ UNCHANGED <<advVars, docker_calls, container, runs, fws, aused, dyn, traceVars>>

\* analyze_image returns and display_analysis_results prints the analysis
DisplayResults ==
    /\ an.pc = "display"
    /\ an' = [an EXCEPT !.pc = "finally"]
    /\ UNCHANGED <<advVars, daemon, active_container, docker_calls, mgr_log, container, runs, fws,
                   aused, dyn, traceVars>>

\* Ctrl+C during the analysis: except KeyboardInterrupt, then the finally
\* block.  An interrupt inside ensure_container_exists is not caught there and
\* can arrive after create() and before active_container is assigned.
MainInterrupt ==
    /\ an.pc \in {"layers", "filesystem", "usage", "security", "ensure", "display"}
    /\ an' = [an EXCEPT !.pc = "finally", !.interrupted = TRUE]
    /\ \/ UNCHANGED daemon
       \/ /\ an.pc \in {"filesystem", "usage", "security", "ensure"}
          /\ \E r \in ensure_container_exists(daemon, active_container) :
                r.active_container = active_container /\ daemon' = r.daemon
    /\ UNCHANGED <<advVars, active_container, docker_calls, mgr_log, container, runs, fws,
                   aused, dyn, traceVars>>

\* finally: analyzer.__del__() runs container_manager.cleanup()
MainFinally ==
    /\ an.pc = "finally"
    /\ \E r \in manager_cleanup(daemon, active_container, docker_calls) :
          /\ daemon' = r.daemon
          /\ docker_calls' = r.docker_calls
    /\ active_container' = None
    /\ mgr_log' = Append(mgr_log, "cleanup")
    /\ an' = [an EXCEPT !.pc = "exited"]
    /\ UNCHANGED <<advVars, container, runs, fws, aused, dyn, traceVars>>

MainInit ==
    an = [pc |-> "idle", layer_info |-> "None", filesystem |-> NoFilesystem,
          unused_files |-> ReturnedNone, security |-> [error |-> FALSE, root_processes |-> <<>>],
          tracked |-> FALSE, file_access |-> NoAccess, interrupted |-> FALSE]

(***************************************************************************)
(* The Optimization Advisor (specified, no source) and the display of its  *)
(* suggestions by display_analysis_results (src/utils.py).                 *)
(***************************************************************************)
MiB == 1024 * 1024
\* large_file_threshold_bytes, default 10 MiB
large_file_threshold_bytes == 10 * MiB
\* the package-manager cache prefixes
cache_prefixes ==
    {<<"/", "v", "a", "r", "/", "c", "a", "c", "h", "e", "/", "a", "p", "t">>,
     <<"/", "v", "a", "r", "/", "c", "a", "c", "h", "e", "/", "y", "u", "m">>,
     <<"/", "r", "o", "o", "t", "/", ".", "c", "a", "c", "h", "e", "/", "p", "i", "p">>}

pBig == <<"/", "b", "i", "g">>
pHuge == <<"/", "h", "u", "g", "e">>
pAptDeb == <<"/", "v", "a", "r", "/", "c", "a", "c", "h", "e", "/", "a", "p", "t", "/", "x">>
pPipWhl == <<"/", "r", "o", "o", "t", "/", ".", "c", "a", "c", "h", "e", "/", "p", "i", "p", "/",
             "y">>

\* the unused files of a partition, with sizes, and the files some layer duplicates
UnusedEntries == {[path |-> pBig, size |-> 20 * MiB], [path |-> pHuge, size |-> 11 * MiB],
                  [path |-> pA, size |-> 10], [path |-> pAptDeb, size |-> 5],
                  [path |-> pPipWhl, size |-> 7]}
DuplicateEntries == {[path |-> pA, size |-> 10], [path |-> pB, size |-> 5]}

\* the sum of the sizes of a set of entries
RECURSIVE SumOf(_)
SumOf(entries) ==
    IF entries = {} THEN 0
    ELSE LET e == CHOOSE x \in entries : TRUE IN e.size + SumOf(entries \ {e})

\* a rule's suggestion for its matching files: none when nothing matches
Suggest(category, priority, matching) ==
    IF matching = {} THEN <<>>
    ELSE <<[category |-> category, priority |-> priority,
            potential_savings |-> SumOf(matching)]>>

\* advise(partition, layer_info): the suggestions of the three rules
advise(unused, duplicates) ==
    Suggest("large unused files", 1, {e \in unused : e.size > large_file_threshold_bytes})
    \o Suggest("duplicated files", 2, duplicates)
    \o Suggest("package caches", 3,
               {e \in unused : \E p \in cache_prefixes : StartsWith(e.path, p \o <<"/">>)})

\* the names src/utils.py defines at module level
utils_globals == {"format_size", "format_number", "display_analysis_results"}

\* sorted(suggestions, key=lambda x: x.priority): stable, ascending
RECURSIVE InsertByPriority(_, _)
InsertByPriority(x, xs) ==
    IF xs = <<>> THEN <<x>>
    ELSE IF Head(xs).priority <= x.priority THEN <<Head(xs)>> \o InsertByPriority(x, Tail(xs))
    ELSE <<x>> \o xs
RECURSIVE SortedByPriority(_)
SortedByPriority(xs) ==
    IF xs = <<>> THEN <<>>
    ELSE InsertByPriority(xs[Len(xs)], SortedByPriority(SubSeq(xs, 1, Len(xs) - 1)))

\* the loop of display_analysis_results over the sorted suggestions: the
\* category and description lines are printed, then the savings line calls
\* _format_size, a name the module does not define (NameError)
RECURSIVE PrintSuggestions(_)
PrintSuggestions(order) ==
    IF order = <<>> THEN [presented |-> <<>>, raised |-> FALSE]
    ELSE IF "_format_size" \notin utils_globals
        THEN [presented |-> <<Head(order)>>, raised |-> TRUE]
    ELSE LET rest == PrintSuggestions(Tail(order))
         IN  [presented |-> <<Head(order)>> \o rest.presented, raised |-> rest.raised]

\* the advisor's suggestions are put under analysis['optimization_suggestions']
Advise ==
    /\ ~analysis.advised
    /\ \E unused \in SUBSET UnusedEntries, duplicates \in SUBSET DuplicateEntries :
          \E order \in Reorderings(advise(unused, duplicates)) :
              analysis' = [advised |-> TRUE, optimization_suggestions |-> order]
    /\ UNCHANGED <<shown, daemon, active_container, docker_calls, mgr_log, an, container,
                   runs, fws, aused, dyn, traceVars>>

\* display_analysis_results(analysis), the 'optimization_suggestions' part
DisplaySuggestions ==
    /\ analysis.advised /\ ~shown.called
    /\ shown' = [called |-> TRUE]
                @@ PrintSuggestions(SortedByPriority(analysis.optimization_suggestions))
    /\ UNCHANGED <<analysis, daemon, active_container, docker_calls, mgr_log, an, container,
                   runs, fws, aused, dyn, traceVars>>

AdvisorInit ==
    /\ analysis = [advised |-> FALSE, optimization_suggestions |-> <<>>]
    /\ shown = [called |-> FALSE, presented |-> <<>>, raised |-> FALSE]

(***************************************************************************)
(* Specifications.                                                         *)
(***************************************************************************)
UsageInit ==
    /\ runs = <<>>
    /\ fws = [called |-> FALSE, files |-> <<>>, total_size |-> 0]
    /\ aused = [called |-> FALSE, files |-> {}]
    /\ dyn = [called |-> FALSE, raised |-> FALSE, files |-> {}]

TrackerInit ==
    /\ disk = NoFiles
    /\ dtrace_process = "None"
    /\ strace_process = "unset"
    /\ tracer = "none"
    /\ start_result = "NotCalled"
    /\ accessed = [called |-> FALSE, files |-> {}]
    /\ cleaned = FALSE
    /\ rt = [pc |-> "idle", tracer |-> "none", result |-> "None", how |-> "none"]
    /\ rt_parsed = [called |-> FALSE, files |-> {}]

\* the usage analysis of a container
Init ==
    /\ container \in Containers
    /\ os_type = "Linux"
    /\ UsageInit
    /\ TrackerInit
    /\ NoManager
    /\ MainInit
    /\ AdvisorInit

Next ==
    \/ GetUnusedFiles
    \/ GetAllUsedFiles
    \/ ExerciseDynamicLoading

Spec == Init /\ [][Next]_vars

\* the FilesystemAnalyzer's enumeration with sizes beside its used set
FsInit ==
    /\ container \in SizedContainers
    /\ os_type = "Linux"
    /\ UsageInit
    /\ TrackerInit
    /\ NoManager
    /\ MainInit
    /\ AdvisorInit

FsNext ==
    \/ GetAllFilesWithSize
    \/ GetAllUsedFiles

FsSpec == FsInit /\ [][FsNext]_vars

\* a trace session on each platform
TraceInit ==
    /\ container = BaseContainer
    /\ os_type \in {"Darwin", "Linux", "Windows"}
    /\ UsageInit
    /\ TrackerInit
    /\ NoManager
    /\ MainInit
    /\ AdvisorInit

TraceNext ==
    \/ StartTracking
    \/ TracerWrite
    \/ TracerExit
    \/ GetAccessedFiles
    \/ Cleanup
    \/ RunTraceSpawn
    \/ RtTracerWrite
    \/ RunTraceExit
    \/ RunTraceTimeout
    \/ RunTraceInterrupt
    \/ RtTracerExit
    \/ ParseTraceOutput

TraceSpec == TraceInit /\ [][TraceNext]_vars

\* a ContainerManager against a daemon that may already run a container
ManagerSpecInit ==
    /\ container = BaseContainer
    /\ os_type = "Linux"
    /\ UsageInit
    /\ TrackerInit
    /\ ManagerInit
    /\ MainInit
    /\ AdvisorInit

ManagerNext ==
    \/ EnsureContainerExists
    \/ ManagerCleanup

ManagerSpec == ManagerSpecInit /\ [][ManagerNext]_vars

\* main() analysing the selected image
MainSpecInit ==
    /\ container \in MainContainers
    /\ os_type = "Linux"
    /\ UsageInit
    /\ TrackerInit
    /\ ManagerInit
    /\ MainInit
    /\ AdvisorInit

MainNext ==
    \/ MainStart
    \/ AnalyzeLayers
    \/ GetImageFilesystem
    \/ AnalyzeUsage
    \/ ScanSecurity
    \/ TrackFileAccess
    \/ DisplayResults
    \/ MainInterrupt
    \/ MainFinally

MainSpec == MainSpecInit /\ [][MainNext]_vars

\* the advisor's suggestions and their display
AdvisorSpecInit ==
    /\ container = BaseContainer
    /\ os_type = "Linux"
    /\ UsageInit
    /\ TrackerInit
    /\ NoManager
    /\ MainInit
    /\ AdvisorInit

AdvisorNext ==
    \/ Advise
    \/ DisplaySuggestions

AdvisorSpec == AdvisorSpecInit /\ [][AdvisorNext]_vars

(***************************************************************************)
(* Properties of the usage analysis.                                       *)
(***************************************************************************)
\* the get_unused_files calls that returned a dict
Returned == {i \in 1..Len(runs) : runs[i].returned = "dict"}

\* the enumerated file paths of a run: the lines of the find output
Enumerated(r) == r.all_files \ {<<>>}

\* the enumerated files get_unused_files leaves out as system files
ExcludedOf(r) == {f \in Enumerated(r) : IsUnderSystemPaths(f, system_paths)}

\* f is an exclusion prefix or lies below one
AtOrBelow(f, paths) == \E path \in paths : f = path \/ StartsWith(f, path \o <<"/">>)

\* C1: used, unused and excluded are pairwise disjoint and their union is
\* exactly the set of enumerated paths.
C1_Partition ==
    \A i \in Returned :
        LET r == runs[i]
        IN  /\ r.used_files \cap r.unused_files = {}
            /\ r.used_files \cap ExcludedOf(r) = {}
            /\ r.unused_files \cap ExcludedOf(r) = {}
            /\ r.used_files \cup r.unused_files \cup ExcludedOf(r) = Enumerated(r)

\* p is a name line of a successful lsof
ReportedByLsof(c, p) ==
    /\ ~c.lsof.raises /\ c.lsof.exit_code = 0
    /\ \E line \in SetOf(SplitLines(c.lsof.output)) : line = <<"n">> \o p

\* p ends a line of a successful maps read of a listed process
ReportedByMaps(c, p) ==
    /\ ~c.ps.raises /\ c.ps.exit_code = 0
    /\ \E pid \in Pids :
          /\ ~c.maps[pid].raises /\ c.maps[pid].exit_code = 0
          /\ \E line \in SetOf(SplitLines(c.maps[pid].output)) : EndsWith(line, <<SP>> \o p)

\* p is the target of a link line of a successful /proc/*/fd listing
ReportedByProcFd(c, p) ==
    /\ ~c.procfd.raises /\ c.procfd.exit_code = 0
    /\ \E line \in SetOf(SplitLines(c.procfd.output)) : EndsWith(line, ARROW \o p)

\* every collector of get_unused_files fails with a non-zero exit or prints nothing
NoUsageEvidence(c) ==
    /\ c.lsof.exit_code # 0 \/ c.lsof.output = <<>>
    /\ c.ps.exit_code # 0 \/ \A pid \in Pids : c.maps[pid].exit_code # 0

\* every collector of get_all_used_files fails or prints nothing
NoFsEvidence(c) ==
    /\ c.lsof.raises \/ c.lsof.exit_code # 0 \/ c.lsof.output = <<>>
    /\ c.procfd.raises \/ c.procfd.exit_code # 0 \/ c.procfd.output = <<>>

C3_ExcludedIffAtOrBelowPrefix ==
    \A i \in Returned :
        \A f \in Enumerated(runs[i]) :
            IsUnderSystemPaths(f, system_paths) <=> AtOrBelow(f, system_paths)

\* C4: an enumerated path is in unused if and only if it is not in used and
\* is not an exclusion prefix or below one.
C4_UnusedIffNotUsedNotExcluded ==
    \A i \in Returned :
        \A f \in Enumerated(runs[i]) :
            f \in runs[i].unused_files <=>
                (f \notin runs[i].used_files /\ ~AtOrBelow(f, system_paths))

\* C5: merging the evidence sets in any order gives the used and the unused
\* set the call computed (the excluded files are read off the enumeration
\* alone), in get_unused_files and in get_all_used_files.
C5_OrderIndependent ==
    /\ \A i \in Returned :
          \A ev \in Reorderings(UsageEvidence(container)) :
              /\ MergeEvidence(ev) = runs[i].used_files
              /\ UnusedOf(runs[i].all_files, MergeEvidence(ev)) = runs[i].unused_files
    /\ (aused.called /\ ~container.apt_lsof.raises) =>
          \A ev \in Reorderings(FsEvidence(container)) : MergeEvidence(ev) = aused.files

\* a run merged two different non-empty evidence sets
C5_Witness ==
    /\ Returned # {}
    /\ UsageEvidence(container)[1] # {}
    /\ UsageEvidence(container)[2] # {}
    /\ UsageEvidence(container)[1] # UsageEvidence(container)[2]

\* C6: two runs on the same container return the same result, the order of
\* the unused-file list and the counts included.
C6_Deterministic ==
    \A i, j \in 1..Len(runs) :
        /\ runs[i].returned = runs[j].returned
        /\ runs[i].dict = runs[j].dict

\* two runs returned a list of at least two unused files
C6_Witness ==
    /\ Len(runs) >= 2
    /\ runs[1].returned = "dict" /\ runs[2].returned = "dict"
    /\ Len(runs[1].dict.unused_files) >= 2
    /\ Len(runs[2].dict.unused_files) >= 2

\* C9: when the enumeration succeeds, a failing evidence collector never makes
\* the usage analysis return no result, and no collector lets an error escape.
C9_DegradedSourceTolerated ==
    /\ \A i \in 1..Len(runs) :
          (container.available /\ ~container.find.raises /\ container.find.exit_code = 0)
              => runs[i].returned = "dict"
    /\ dyn.called => ~dyn.raised

(***************************************************************************)
(* Properties of the sized enumeration.                                    *)
(***************************************************************************)
\* the distinct paths of the list get_all_files_with_size returned
FwsPaths == {fws.files[i][1] : i \in 1..Len(fws.files)}

\* the size the list gives a path first
FirstSize(path) ==
    fws.files[CHOOSE i \in 1..Len(fws.files) :
                  fws.files[i][1] = path /\ \A j \in 1..(i - 1) : fws.files[j][1] # path][2]

\* the sum of the first-seen sizes of a set of listed paths
RECURSIVE SizeOfPaths(_)
SizeOfPaths(paths) ==
    IF paths = {} THEN 0
    ELSE LET path == CHOOSE x \in paths : TRUE
         IN  FirstSize(path) + SizeOfPaths(paths \ {path})

FsExcluded == {f \in FwsPaths : is_system_path(f)}
FsUsed == {f \in FwsPaths : ~is_system_path(f) /\ f \in aused.files}
FsUnused == {f \in FwsPaths : ~is_system_path(f) /\ f \notin aused.files}

\* C7: the reported total size equals the sum of the sizes of the used, the
\* unused and the excluded files.
C7_SizeConservation ==
    (fws.called /\ aused.called) =>
        fws.total_size = SizeOfPaths(FsUsed) + SizeOfPaths(FsUnused) + SizeOfPaths(FsExcluded)

\* C8: a path the enumeration output lists more than once is held once, with
\* its first-seen size, and counted once in total_size.
C8_DuplicatePathHeldOnce ==
    fws.called =>
        /\ \A i, j \in 1..Len(fws.files) : fws.files[i][1] = fws.files[j][1] => i = j
        /\ fws.total_size = SizeOfPaths(FwsPaths)

(***************************************************************************)
(* Properties of the trace session.                                        *)
(***************************************************************************)
\* C10: once cleanup has run after a session, and once the output of
\* run_trace_command has been parsed, no tracer script and no tracer output
\* file remains.
C10_NoArtifactRemains ==
    /\ cleaned =>
          \A f \in {"file_trace.d", "dtrace_output.txt", "strace_output.txt"} :
              ~disk[f].exists
    /\ (rt.pc = "returned" /\ rt_parsed.called) => ~disk[RtOut(os_type)].exists

\* C11: the output of a trace session is parsed only in a session whose tracer
\* was started and has been stopped; a session whose tracer failed to start, or
\* that runs on an unsupported platform, yields no paths.
C11_ParsedOnlyAfterStartedAndStopped ==
    (accessed.called /\ start_result # "NotCalled") =>
        /\ start_result = "True" => tracer \in {"terminated", "exited"}
        /\ start_result = "False" => accessed.files = {}

\* the path a line of tracer output records, for the calls the backend's
\* grammar covers: open and stat probes of dtrace, openat calls of strace
OpenedPath(os, line) ==
    IF os = "Darwin"
        THEN (IF line = dOpenA THEN {pA} ELSE IF line = dStatB THEN {pB} ELSE {})
        ELSE (IF line = sOpenatA THEN {pA} ELSE {})

\* C12: when the 30 s window of run_trace_command times out, the tracer has
\* been terminated when the call returns, the call returns True, and a
\* parse_trace_output after it returns the paths of every line the tracer had
\* written, on both backends.
C12_TimeoutKeepsPartialOutput ==
    [][/\ rt'.how = "TimeoutExpired" =>
              /\ rt'.result = "True"
              /\ rt'.tracer \in {"terminated", "exited"}
       /\ (rt.how = "TimeoutExpired" /\ ~rt_parsed.called /\ rt_parsed'.called) =>
              rt_parsed'.files =
                  UNION {OpenedPath(os_type, l) : l \in SetOf(disk[RtOut(os_type)].lines)}]_vars

\* run_trace_command timed out and the output written so far was parsed
C12_Witness ==
    /\ rt.how = "TimeoutExpired"
    /\ disk[RtOut(os_type)].lines # <<>>
    /\ rt_parsed.called /\ rt_parsed.files # {}

(***************************************************************************)
(* Properties of analyze_image and main.                                   *)
(***************************************************************************)
\* C13: the used/unused partition analyze_image returns was merged from the
\* evidence of every collector that ran: every path the diff collector
\* reported is in the used set and none is reported unused.
C13_MergeAfterAllCollectors ==
    (/\ an.pc \in {"display", "finally", "exited"}
     /\ an.tracked
     /\ an.unused_files.returned = "dict") =>
        /\ an.file_access.files \subseteq an.unused_files.used_files
        /\ an.file_access.files \cap an.unused_files.unused_files = {}

(***************************************************************************)
(* Properties of cancellation.                                             *)
(***************************************************************************)
\* C14: once a keyboard interrupt has been handled, the tracer subprocess that
\* was in flight has been terminated and its trace artifact is removed.
C14_InterruptTerminatesTracer ==
    rt.how = "KeyboardInterrupt" =>
        /\ rt.tracer \in {"terminated", "exited"}
        /\ ~disk[RtOut(os_type)].exists

(***************************************************************************)
(* Properties of the enumeration.                                          *)
(***************************************************************************)
\* the decimal numerals of the sizes the enumeration outputs use
Numeral(n) == CASE n = 1 -> <<"1">> [] n = 2 -> <<"2">> [] n = 5 -> <<"5">>
                [] n = 7 -> <<"7">> [] n = 10 -> <<"1", "0">>

\* the well-formed "<size> <path>" lines of an enumeration output, as entries
ListedEntries(output) ==
    {e \in {pA, pB, pProcX, pTmpT} \X {1, 2, 5, 7, 10} :
        \E line \in SetOf(SplitLines(output)) : line = Numeral(e[2]) \o <<SP>> \o e[1]}

\* the enumeration command could not be run, or listed nothing and failed
RootInaccessible(c) ==
    c.sized.raises \/ (c.sized.exit_code # 0 /\ ListedEntries(c.sized.output) = {})

\* C15: get_all_files_with_size returns every well-formed entry of the output
\* whatever other entries were unreadable or malformed, and a failed
\* enumeration does not return what an empty enumeration returns (the empty
\* list).
C15_SkipsBadEntriesOnly ==
    (fws.called /\ ~container.which_find.raises) =>
        /\ ~container.sized.raises =>
              \A e \in ListedEntries(container.sized.output) :
                  \E i \in 1..Len(fws.files) : fws.files[i] = e
        /\ RootInaccessible(container) => fws.files # <<>>

\* the file paths the find output of a container lists
FoundPaths(c) == SetOf(SplitLines(c.find.output)) \ {<<>>}

\* C16: the file count get_image_filesystem reports equals the number of paths
\* it returns, the counts get_unused_files reports equal the number of
\* enumerated paths and of unused paths, and for an enumeration of zero files
\* the lists are empty and every count is 0.
C16_CountsMatchPaths ==
    /\ an.filesystem.returned = "dict" =>
          /\ an.filesystem.total_files = Len(an.filesystem.files)
          /\ FoundPaths(container) = {} =>
                an.filesystem.files = <<>> /\ an.filesystem.total_files = 0
    /\ an.unused_files.returned = "dict" =>
          /\ an.unused_files.dict.all_files = Cardinality(FoundPaths(container))
          /\ an.unused_files.dict.total_unused = Len(an.unused_files.dict.unused_files)
          /\ FoundPaths(container) = {} =>
                /\ an.unused_files.dict.unused_files = <<>>
                /\ an.unused_files.dict.all_files = 0
                /\ an.unused_files.dict.total_unused = 0

(***************************************************************************)
(* Properties of the suggestions.                                          *)
(***************************************************************************)
\* C17: every suggestion is presented, in ascending order of priority, each
\* priority is an integer in 1..5, and the suggestions of a run come from
\* different rules, each with files that matched (savings above 0).
C17_PresentedAscending ==
    shown.called =>
        /\ ~shown.raised
        /\ Len(shown.presented) = Len(analysis.optimization_suggestions)
        /\ \A i \in 1..Len(analysis.optimization_suggestions) :
              \E j \in 1..Len(shown.presented) :
                  shown.presented[j] = analysis.optimization_suggestions[i]
        /\ \A i, j \in 1..Len(shown.presented) :
              i < j => shown.presented[i].priority <= shown.presented[j].priority
        /\ \A i \in 1..Len(analysis.optimization_suggestions) :
              /\ analysis.optimization_suggestions[i].priority \in 1..5
              /\ analysis.optimization_suggestions[i].potential_savings > 0
              /\ \A j \in 1..Len(analysis.optimization_suggestions) :
                    analysis.optimization_suggestions[i].category
                        = analysis.optimization_suggestions[j].category => i = j

(***************************************************************************)
(* Properties of the process-map collector.                                *)
(***************************************************************************)
\* ps lists the process: a line after the header whose second field is pid
ListedByPs(c, pid) ==
    \E k \in 2..Len(SplitLines(c.ps.output)) :
        LET fields == SplitWs(SplitLines(c.ps.output)[k])
        IN  Len(fields) >= 2 /\ fields[2] = pid

\* the read of the process's maps succeeded and every line of it has a field
ReadableMaps(c, pid) ==
    /\ ~c.maps[pid].raises /\ c.maps[pid].exit_code = 0
    /\ \A line \in SetOf(SplitLines(c.maps[pid].output)) : line = <<>> \/ SplitWs(line) # <<>>

\* C18: when the enumeration, lsof and ps succeed, get_unused_files completes
\* whatever the read of one process's maps does, and the files mapped by every
\* listed process whose maps were read are in the used set.
C18_ProcessReadFailureIsPartial ==
    \A i \in 1..Len(runs) :
        (/\ container.available
         /\ ~container.find.raises /\ container.find.exit_code = 0
         /\ ~container.lsof.raises
         /\ ~container.ps.raises /\ container.ps.exit_code = 0) =>
            /\ runs[i].returned = "dict"
            /\ \A pid \in Pids :
                  (ListedByPs(container, pid) /\ ReadableMaps(container, pid)) =>
                      \A p \in {pA, pB, HEAP} :
                          (\E line \in SetOf(SplitLines(container.maps[pid].output)) :
                              EndsWith(line, <<SP>> \o p))
                              => p \in runs[i].used_files

(***************************************************************************)
(* Properties of the ContainerManager.                                     *)
(***************************************************************************)
\* C19: a container that ran before the analysis is never stopped or removed
\* by the manager, whatever its name.
C19_AdoptedContainerUntouched ==
    [][/\ daemon'[PreExisting] = daemon[PreExisting]
       /\ \A k \in 1..Len(docker_calls') : docker_calls'[k][2] # PreExisting]_vars

\* C20: when cleanup returns, no container the manager created is left (each
\* is removed), active_container is None, and a cleanup called while
\* active_container is None makes no stop or remove call.
C20_CleanupLeavesNothing ==
    [][ManagerCleanup =>
          /\ \A id \in CreatedIds : daemon'[id].status = "absent"
          /\ active_container' = None
          /\ active_container = None => docker_calls' = docker_calls]_vars

====
